---------------------------- MODULE Spec2Model ----------------------------
(***************************************************************************)
(* Model of backend/app.py: a round-robin cricket tournament backend.      *)
(*                                                                         *)
(* Three kernels are modelled, each with its own specification:            *)
(*   SpecSchedule : generate_round_robin_schedule applied to a team list   *)
(*   SpecInnings  : the ball-by-ball loop of simulate_innings_bot          *)
(*   Spec         : the request handlers (setup, simulate_next, reset)     *)
(*                  over the four persisted JSON files                     *)
(*                                                                         *)
(* Conventions.  A JSON file is modelled as a sequence of length 0 (the    *)
(* file does not exist, load_json returns None) or 1 (its content).        *)
(* Outcomes of a delivery are strings, "0".."6" for the run outcomes, so   *)
(* that str(outcome) of line 85 is the outcome itself.  overs_for and      *)
(* overs_against are kept in balls (sixths of an over), nrr in thousandths.*)
(***************************************************************************)
EXTENDS Integers, Sequences, FiniteSets, TLC

(***************************************************************************)
(* Bounds of the model.                                                    *)
(***************************************************************************)
\* longest team list handed to the scheduler
MaxTeams == 5
\* largest overs-per-innings of the innings loop
MaxOvers == 2
\* deliveries of an innings whose outcome is drawn from all eleven outcomes;
\* later deliveries draw from LateOutcomes
MaxFreeDraws == 6
\* longest team list of a tournament set up through the handlers
MaxTourTeams == 3
\* largest overs-per-innings of a tournament set up through the handlers
MaxTourOvers == 2

(***************************************************************************)
(* Program constants.                                                      *)
(***************************************************************************)
\* balls per over: range(overs * 6), balls / 6
BallsPerOver == 6
\* the innings stops at this many wickets
AllOut == 10
\* points for a win, and for each side of a tie
WinPoints == 2
TiePoints == 1
\* the placeholder appended to an odd team list
BYE == "BYE"

\* team identifiers: opaque strings, the placeholder's text and the empty
\* string among them
TeamIds == {"A", "B", "C", "D", "E", "BYE", ""}

Range(s) == {s[x] : x \in DOMAIN s}

IsUnique(s) == \A x, y \in DOMAIN s : x # y => s[x] # s[y]

\* the duplicate-free lists over ids of length at most n
UniqueLists(ids, n) ==
    {s \in UNION {[1..m -> ids] : m \in 0..n} : IsUnique(s)}

(***************************************************************************)
(* generate_round_robin_schedule                                           *)
(***************************************************************************)
\* lines 35-36: an odd list gets the placeholder appended
PadBye(teams) ==
    IF Len(teams) % 2 # 0 THEN Append(teams, BYE) ELSE teams

\* line 40: the j-th match (j from 0) of a round
MatchAt(teams, j) == <<teams[j + 1], teams[Len(teams) - j]>>

\* line 41: "BYE" not in match
KeepMatch(match) == BYE \notin Range(match)

\* lines 39-42: the matches one round appends, for j = from .. len/2 - 1
RECURSIVE RoundFrom(_, _)
RoundFrom(teams, j) ==
    IF j >= Len(teams) \div 2 THEN <<>>
    ELSE (IF KeepMatch(MatchAt(teams, j)) THEN <<MatchAt(teams, j)>> ELSE <<>>)
         \o RoundFrom(teams, j + 1)

\* Rotate with teams.insert(0, teams.pop()): the first team rotates too
RotateAll(teams) ==
    <<teams[Len(teams)]>> \o SubSeq(teams, 1, Len(teams) - 1)

\* line 43: teams.insert(1, teams.pop())
Rotate(teams) ==
    <<teams[1], teams[Len(teams)]>> \o SubSeq(teams, 2, Len(teams) - 1)

\* lines 38-43: the rounds i = 1 .. left
RECURSIVE Rounds(_, _)
Rounds(teams, left) ==
    IF left <= 0 THEN <<>>
    ELSE RoundFrom(teams, 0) \o Rounds(Rotate(teams), left - 1)

generate_round_robin_schedule(teams) ==
    Rounds(PadBye(teams), Len(PadBye(teams)) - 1)

(***************************************************************************)
(* simulate_innings_bot                                                    *)
(***************************************************************************)
\* line 61
outcomes == <<"0", "1", "2", "3", "4", "6", "W", "WD", "NB", "B", "LB">>

Outcomes == Range(outcomes)

RunOutcomes == {"0", "1", "2", "3", "4", "6"}

\* the outcomes counted in scorecard["extras"]
ExtraOutcomes == {"WD", "NB", "B", "LB"}

\* int value of a run outcome
RunsOf(o) ==
    CASE o = "0" -> 0 [] o = "1" -> 1 [] o = "2" -> 2
      [] o = "3" -> 3 [] o = "4" -> 4 [] o = "6" -> 6

\* lines 56-60
NewScorecard ==
    [runs |-> 0, wickets |-> 0, balls |-> 0,
     extras |-> [wides |-> 0, noballs |-> 0, byes |-> 0, legbyes |-> 0],
     breakdown |-> [k \in RunOutcomes \cup {"wickets"} |-> 0]]

\* Ball without the "continue" of line 73: a wide or a no-ball falls through
\* to line 75 and is counted as a legal ball
BallWithoutContinue(sc, o) ==
    IF o \in {"WD", "NB"}
    THEN [sc EXCEPT !.runs = @ + 1,
                    !.balls = @ + 1,
                    !.extras[IF o = "WD" THEN "wides" ELSE "noballs"] = @ + 1]
    ELSE LET b == [sc EXCEPT !.balls = @ + 1] IN
         IF o = "W"
         THEN [b EXCEPT !.wickets = @ + 1, !.breakdown["wickets"] = @ + 1]
         ELSE IF o \in {"B", "LB"}
         THEN [b EXCEPT !.runs = @ + 1,
                        !.extras[IF o = "B" THEN "byes" ELSE "legbyes"] = @ + 1]
         ELSE [b EXCEPT !.runs = @ + RunsOf(o), !.breakdown[o] = @ + 1]

\* Ball without the "runs += 1" of line 81: a bye or a leg-bye is counted in
\* the extras and scores nothing
BallByeScoresNothing(sc, o) ==
    IF o \in {"WD", "NB"}
    THEN [sc EXCEPT !.runs = @ + 1,
                    !.extras[IF o = "WD" THEN "wides" ELSE "noballs"] = @ + 1]
    ELSE LET b == [sc EXCEPT !.balls = @ + 1] IN
         IF o = "W"
         THEN [b EXCEPT !.wickets = @ + 1, !.breakdown["wickets"] = @ + 1]
         ELSE IF o \in {"B", "LB"}
         THEN [b EXCEPT
                  !.extras[IF o = "B" THEN "byes" ELSE "legbyes"] = @ + 1]
         ELSE [b EXCEPT !.runs = @ + RunsOf(o), !.breakdown[o] = @ + 1]

\* lines 70-85: the effect of one drawn outcome on the scorecard
Ball(sc, o) ==
    IF o \in {"WD", "NB"}
    THEN [sc EXCEPT !.runs = @ + 1,
                    !.extras[IF o = "WD" THEN "wides" ELSE "noballs"] = @ + 1]
    ELSE LET b == [sc EXCEPT !.balls = @ + 1] IN
         IF o = "W"
         THEN [b EXCEPT !.wickets = @ + 1, !.breakdown["wickets"] = @ + 1]
         ELSE IF o \in {"B", "LB"}
         THEN [b EXCEPT !.runs = @ + 1,
                        !.extras[IF o = "B" THEN "byes" ELSE "legbyes"] = @ + 1]
         ELSE [b EXCEPT !.runs = @ + RunsOf(o), !.breakdown[o] = @ + 1]

\* InningsOver with "> 10" for ">= 10"
InningsOverOffByOne(sc) == sc.wickets > AllOut

\* line 65: the early break
InningsOver(sc) == sc.wickets >= AllOut

\* lines 64-87 as a function of the outcomes drawn: draws[k] is the outcome
\* random.choices returns in iteration k, were that iteration to draw
RECURSIVE InningsFrom(_, _, _)
InningsFrom(sc, draws, k) ==
    IF k > Len(draws) \/ InningsOver(sc) THEN sc
    ELSE InningsFrom(Ball(sc, draws[k]), draws, k + 1)

simulate_innings_bot(draws) == InningsFrom(NewScorecard, draws, 1)


(***************************************************************************)
(* calculate_nrr                                                           *)
(***************************************************************************)
\* round(x, 3) of the quotient num / den (den > 0), as an integer: to the
\* nearest, a half to the even neighbour
RoundHalfEven(num, den) ==
    LET q == num \div den
        r == num % den
    IN  IF 2 * r < den THEN q
        ELSE IF 2 * r > den THEN q + 1
        ELSE IF q % 2 = 0 THEN q ELSE q + 1

\* calculate_nrr guarding overs_for only, a side that bowled no legal ball
\* counting as a rate of 0 against
NrrGuardsOversForOnly(runs_for, overs_for, runs_against, overs_against) ==
    IF overs_for = 0 THEN 0
    ELSE IF overs_against = 0
    THEN RoundHalfEven(1000 * BallsPerOver * runs_for, overs_for)
    ELSE RoundHalfEven(
             1000 * BallsPerOver
                  * (runs_for * overs_against - runs_against * overs_for),
             overs_for * overs_against)

\* lines 46-52, overs in balls and the result in thousandths:
\*   runs_for / (balls_for / 6) - runs_against / (balls_against / 6)
calculate_nrr(runs_for, overs_for, runs_against, overs_against) ==
    IF overs_for = 0 \/ overs_against = 0 THEN 0
    ELSE RoundHalfEven(
             1000 * BallsPerOver
                  * (runs_for * overs_against - runs_against * overs_for),
             overs_for * overs_against)

(***************************************************************************)
(* State                                                                   *)
(***************************************************************************)
VARIABLES
    \* generate_round_robin_schedule: its argument, its result, its position
    teams_arg, returned, sched_pc,
    \* simulate_innings_bot: its argument, iterations of the loop so far, the
    \* outcome last drawn, the scorecard, its position
    overs, drawn, outcome, scorecard, innings_pc,
    \* the four files under data/
    config, schedule, results, points_table,
    \* the handler last called and the reply it gave
    response,
    \* simulate_next_match in two concurrent requests: the position and the
    \* local variables of each
    req

sched_vars == <<teams_arg, returned, sched_pc>>

innings_vars == <<overs, drawn, outcome, scorecard, innings_pc>>

files == <<config, schedule, results, points_table>>

race_vars == <<req>>

vars == <<teams_arg, returned, sched_pc,
          overs, drawn, outcome, scorecard, innings_pc,
          config, schedule, results, points_table, response, req>>

\* load_json returns None: the file is missing
NoFile == <<>>

\* the kernels at rest, in the specifications that do not run them
SchedIdle == teams_arg = <<>> /\ returned = <<>> /\ sched_pc = "idle"

InningsIdle ==
    /\ overs = 0 /\ drawn = 0 /\ outcome = "none"
    /\ scorecard = NewScorecard /\ innings_pc = "idle"

\* the two requests of the race
Requests == {"first", "second"}

\* a request that has not started: no local variable is bound yet
ReqStart ==
    [pc |-> "start", schedule |-> NoFile, match |-> <<>>,
     scorecard1 |-> NewScorecard, scorecard2 |-> NewScorecard,
     winner |-> <<>>, points_table |-> NoFile, results |-> NoFile,
     status |-> 0]

RaceIdle == req = [p \in Requests |-> ReqStart]

NoResponse == [handler |-> "none", status |-> 0]

\* a fresh data directory, no request made yet
FilesInit ==
    /\ config = NoFile /\ schedule = NoFile
    /\ results = NoFile /\ points_table = NoFile
    /\ response = NoResponse

(***************************************************************************)
(* SpecSchedule: the scheduler applied to every duplicate-free team list   *)
(***************************************************************************)
InitSchedule ==
    /\ teams_arg \in UniqueLists(TeamIds, MaxTeams)
    /\ returned = <<>>
    /\ sched_pc = "called"
    /\ InningsIdle
    /\ FilesInit
    /\ RaceIdle

Generate ==
    /\ sched_pc = "called"
    /\ returned' = generate_round_robin_schedule(teams_arg)
    /\ sched_pc' = "done"
    /\ UNCHANGED <<teams_arg, innings_vars, files, response, race_vars>>

NextSchedule == Generate

SpecSchedule == InitSchedule /\ [][NextSchedule]_vars

(***************************************************************************)
(* SpecInnings: the loop of simulate_innings_bot, one iteration per step   *)
(***************************************************************************)
\* outcomes drawn after the first MaxFreeDraws deliveries
LateOutcomes == {"0", "W", "WD"}

DrawChoices(k) == IF k < MaxFreeDraws THEN Outcomes ELSE LateOutcomes

InitInnings ==
    /\ overs \in 1..MaxOvers
    /\ drawn = 0
    /\ outcome = "none"
    /\ scorecard = NewScorecard
    /\ innings_pc = "loop"
    /\ SchedIdle
    /\ FilesInit
    /\ RaceIdle

\* Deliver under "while balls < overs * 6": the loop goes on until the
\* legal balls are bowled, however many outcomes it has drawn
DeliverWhileBallsRemain ==
    /\ innings_pc = "loop"
    /\ scorecard.balls < overs * BallsPerOver
    /\ ~InningsOver(scorecard)
    /\ \E o \in DrawChoices(drawn) :
          /\ outcome' = o
          /\ scorecard' = Ball(scorecard, o)
    /\ drawn' = drawn + 1
    /\ UNCHANGED <<overs, innings_pc, sched_vars, files, response, race_vars>>

\* lines 68-85: an iteration that draws an outcome
Deliver ==
    /\ innings_pc = "loop"
    /\ drawn < overs * BallsPerOver
    /\ ~InningsOver(scorecard)
    /\ \E o \in DrawChoices(drawn) :
          /\ outcome' = o
          /\ scorecard' = Ball(scorecard, o)
    /\ drawn' = drawn + 1
    /\ UNCHANGED <<overs, innings_pc, sched_vars, files, response, race_vars>>

\* lines 65-66: the break
AllOutBreak ==
    /\ innings_pc = "loop"
    /\ drawn < overs * BallsPerOver
    /\ InningsOver(scorecard)
    /\ innings_pc' = "returned"
    /\ UNCHANGED <<overs, drawn, outcome, scorecard, sched_vars,
                   files, response, race_vars>>

\* line 64 exhausted, line 87
RangeExhausted ==
    /\ innings_pc = "loop"
    /\ drawn = overs * BallsPerOver
    /\ innings_pc' = "returned"
    /\ UNCHANGED <<overs, drawn, outcome, scorecard, sched_vars,
                   files, response, race_vars>>

NextInnings == Deliver \/ AllOutBreak \/ RangeExhausted

SpecInnings == InitInnings /\ [][NextInnings]_vars

(***************************************************************************)
(* Spec: the handlers, one request at a time                               *)
(***************************************************************************)
\* the teams a tournament is set up with: the runs of at most MaxTourTeams
\* consecutive entries of this roster (the team lists are duplicate-free, as
\* the data model has them)
roster == <<"A", "B", "C", "BYE", "", "D">>

TourTeamLists ==
    {SubSeq(roster, a, b) : a \in 1..(Len(roster) + 1), b \in 0..Len(roster)}
        \cap UniqueLists(Range(roster), MaxTourTeams)

\* data['name']
Names == {"Cup"}

\* the outcomes a simulated match draws: an innings of a match draws the
\* same outcome at every delivery
TourOutcomes == {"0", "1", "W", "WD"}

TourDraws(n) == {[k \in 1..(n * BallsPerOver) |-> o] : o \in TourOutcomes}

\* lines 108-111: a team's entry at setup (it has no "nrr" key yet)
NewEntry ==
    [played |-> 0, won |-> 0, lost |-> 0, points |-> 0,
     runs_for |-> 0, overs_for |-> 0, runs_against |-> 0, overs_against |-> 0]

\* lines 99-115
setup_tournament ==
    \E name \in Names, n \in 1..MaxTourOvers, teams \in TourTeamLists :
        /\ config' = <<[name |-> name, overs |-> n, teams |-> teams]>>
        /\ schedule' = <<generate_round_robin_schedule(teams)>>
        /\ points_table' = <<[t \in Range(teams) |-> NewEntry]>>
        /\ results' = << <<>> >>
        /\ response' = [handler |-> "setup", status |-> 200]
        /\ UNCHANGED <<sched_vars, innings_vars, race_vars>>

\* line 126: not schedule or not config (a config, once saved, is a
\* non-empty dict)
NothingToPlay ==
    IF schedule = NoFile THEN TRUE
    ELSE IF Len(schedule[1]) = 0 THEN TRUE
    ELSE config = NoFile

\* SimulateNextError saving "schedule or []" before it replies
SimulateNextErrorSaves ==
    /\ NothingToPlay
    /\ schedule' = << <<>> >>
    /\ response' = [handler |-> "simulate_next", status |-> 400]
    /\ UNCHANGED <<config, results, points_table, sched_vars,
                   innings_vars, race_vars>>

\* lines 126-127
SimulateNextError ==
    /\ NothingToPlay
    /\ response' = [handler |-> "simulate_next", status |-> 400]
    /\ UNCHANGED <<files, sched_vars, innings_vars, race_vars>>

\* winner = None, or a team
NoWinner == <<>>

\* lines 135-139
WinnerOf(team1, scorecard1, team2, scorecard2) ==
    IF scorecard1.runs > scorecard2.runs THEN <<team1>>
    ELSE IF scorecard2.runs > scorecard1.runs THEN <<team2>>
    ELSE NoWinner

\* line 155, "if winner": None and the empty string are both false
Truthy(winner) == winner # NoWinner /\ winner[1] # ""

\* Credit without "played += 1" for a side that did not score
CreditScorersOnly(table, team, own, opp) ==
    [table EXCEPT ![team] =
        [@ EXCEPT !.played = IF own.runs > 0 THEN @ + 1 ELSE @,
                  !.runs_for = @ + own.runs,
                  !.overs_for = @ + own.balls,
                  !.runs_against = @ + opp.runs,
                  !.overs_against = @ + opp.balls]]

\* lines 143-147 and 149-153: a team's entry after an innings of its own
\* and one of its opponent's
Credit(table, team, own, opp) ==
    [table EXCEPT ![team] =
        [@ EXCEPT !.played = @ + 1,
                  !.runs_for = @ + own.runs,
                  !.overs_for = @ + own.balls,
                  !.runs_against = @ + opp.runs,
                  !.overs_against = @ + opp.balls]]

\* Award with "points = 1" in place of "points += 1" on a tie
AwardTieAssigns(table, team1, team2, winner) ==
    IF Truthy(winner)
    THEN LET loser == IF winner[1] = team1 THEN team2 ELSE team1
             won == [table EXCEPT ![winner[1]] =
                        [@ EXCEPT !.won = @ + 1, !.points = @ + WinPoints]]
         IN  [won EXCEPT ![loser] = [@ EXCEPT !.lost = @ + 1]]
    ELSE LET one == [table EXCEPT ![team1] = [@ EXCEPT !.points = TiePoints]]
         IN  [one EXCEPT ![team2] = [@ EXCEPT !.points = TiePoints]]

\* Award giving each side of a tie the points of a win
AwardTieAsWin(table, team1, team2, winner) ==
    IF Truthy(winner)
    THEN LET loser == IF winner[1] = team1 THEN team2 ELSE team1
             won == [table EXCEPT ![winner[1]] =
                        [@ EXCEPT !.won = @ + 1, !.points = @ + WinPoints]]
         IN  [won EXCEPT ![loser] = [@ EXCEPT !.lost = @ + 1]]
    ELSE LET one == [table EXCEPT ![team1] =
                        [@ EXCEPT !.points = @ + WinPoints]]
         IN  [one EXCEPT ![team2] = [@ EXCEPT !.points = @ + WinPoints]]

\* lines 155-162
Award(table, team1, team2, winner) ==
    IF Truthy(winner)
    THEN LET loser == IF winner[1] = team1 THEN team2 ELSE team1
             won == [table EXCEPT ![winner[1]] =
                        [@ EXCEPT !.won = @ + 1, !.points = @ + WinPoints]]
         IN  [won EXCEPT ![loser] = [@ EXCEPT !.lost = @ + 1]]
    ELSE LET one == [table EXCEPT ![team1] =
                        [@ EXCEPT !.points = @ + TiePoints]]
         IN  [one EXCEPT ![team2] = [@ EXCEPT !.points = @ + TiePoints]]

\* lines 164-168: every entry gets its "nrr" key set
Rerate(table) ==
    [t \in DOMAIN table |->
        ("nrr" :> calculate_nrr(table[t].runs_for, table[t].overs_for,
                                table[t].runs_against, table[t].overs_against))
        @@ table[t]]

\* SimulateNextOk with "schedule.pop()" in place of "schedule.pop(0)"
SimulateNextPopsLast ==
    /\ ~NothingToPlay
    /\ LET match == schedule[1][Len(schedule[1])]
           team1 == match[1]
           team2 == match[2]
       IN  \E draws1, draws2 \in TourDraws(config[1].overs) :
             LET scorecard1 == simulate_innings_bot(draws1)
                 scorecard2 == simulate_innings_bot(draws2)
                 winner == WinnerOf(team1, scorecard1, team2, scorecard2)
                 credited == Credit(Credit(points_table[1],
                                           team1, scorecard1, scorecard2),
                                    team2, scorecard2, scorecard1)
             IN  /\ points_table' =
                        <<Rerate(Award(credited, team1, team2, winner))>>
                 /\ results' =
                        <<Append(results[1],
                                 [team1 |-> team1, scorecard1 |-> scorecard1,
                                  team2 |-> team2, scorecard2 |-> scorecard2,
                                  winner |-> winner])>>
    /\ schedule' = <<SubSeq(schedule[1], 1, Len(schedule[1]) - 1)>>
    /\ response' = [handler |-> "simulate_next", status |-> 200]
    /\ UNCHANGED <<config, sched_vars, innings_vars, race_vars>>

\* lines 129-179
SimulateNextOk ==
    /\ ~NothingToPlay
    /\ LET match == Head(schedule[1])
           team1 == match[1]
           team2 == match[2]
       IN  \E draws1, draws2 \in TourDraws(config[1].overs) :
             LET scorecard1 == simulate_innings_bot(draws1)
                 scorecard2 == simulate_innings_bot(draws2)
                 winner == WinnerOf(team1, scorecard1, team2, scorecard2)
                 credited == Credit(Credit(points_table[1],
                                           team1, scorecard1, scorecard2),
                                    team2, scorecard2, scorecard1)
             IN  /\ points_table' =
                        <<Rerate(Award(credited, team1, team2, winner))>>
                 /\ results' =
                        <<Append(results[1],
                                 [team1 |-> team1, scorecard1 |-> scorecard1,
                                  team2 |-> team2, scorecard2 |-> scorecard2,
                                  winner |-> winner])>>
    /\ schedule' = <<Tail(schedule[1])>>
    /\ response' = [handler |-> "simulate_next", status |-> 200]
    /\ UNCHANGED <<config, sched_vars, innings_vars, race_vars>>

\* lines 122-188
simulate_next_match == SimulateNextError \/ SimulateNextOk

\* reset_system without "if os.path.exists(f)": os.remove raises at the first
\* file that is missing, the files before it are gone, and the reply is 500
ResetWithoutExistsCheck ==
    /\ config' = NoFile
    /\ schedule' = IF config = NoFile THEN schedule ELSE NoFile
    /\ results' = IF NoFile \in {config, schedule} THEN results ELSE NoFile
    /\ points_table' = IF NoFile \in {config, schedule, results}
                       THEN points_table ELSE NoFile
    /\ response' = [handler |-> "reset",
                    status |-> IF NoFile \in {config, schedule, results,
                                              points_table}
                               THEN 500 ELSE 200]
    /\ UNCHANGED <<sched_vars, innings_vars, race_vars>>

\* lines 204-217: every file that exists is removed
reset_system ==
    /\ config' = NoFile
    /\ schedule' = NoFile
    /\ results' = NoFile
    /\ points_table' = NoFile
    /\ response' = [handler |-> "reset", status |-> 200]
    /\ UNCHANGED <<sched_vars, innings_vars, race_vars>>

\* lines 94-97
get_status ==
    /\ response' = [handler |-> "status", status |-> 200,
                    body |-> [is_setup |-> config # NoFile]]
    /\ UNCHANGED <<files, sched_vars, innings_vars, race_vars>>

\* the code points of a team identifier: Python compares strings by them
CodePoints(t) ==
    CASE t = "" -> <<>>
      [] t = "A" -> <<65>>
      [] t = "B" -> <<66>>
      [] t = "BYE" -> <<66, 89, 69>>
      [] t = "C" -> <<67>>
      [] t = "D" -> <<68>>
      [] t = "E" -> <<69>>

\* s < t for sequences of code points, as str.__lt__ has it
RECURSIVE StrLess(_, _)
StrLess(s, t) ==
    IF t = <<>> THEN FALSE
    ELSE IF s = <<>> THEN TRUE
    ELSE IF Head(s) # Head(t) THEN Head(s) < Head(t)
    ELSE StrLess(Tail(s), Tail(t))

\* line 196: item[1].get('nrr', 0)
NrrOf(entry) == IF "nrr" \in DOMAIN entry THEN entry.nrr ELSE 0

\* SortKey without item[0]: the key (-points, -nrr)
SortKeyWithoutName(item) == <<-item[2].points, -NrrOf(item[2]), <<>>>>

\* line 196: the key of an item (team, entry) of the table
SortKey(item) == <<-item[2].points, -NrrOf(item[2]), CodePoints(item[1])>>

\* k1 < k2 for two keys, as tuples compare
KeyLess(k1, k2) ==
    IF k1[1] # k2[1] THEN k1[1] < k2[1]
    ELSE IF k1[2] # k2[2] THEN k1[2] < k2[2]
    ELSE StrLess(k1[3], k2[3])

\* one item put into a sorted list, behind the items that are not greater
RECURSIVE InsertSorted(_, _)
InsertSorted(list, x) ==
    IF list = <<>> THEN <<x>>
    ELSE IF KeyLess(SortKey(x), SortKey(Head(list))) THEN <<x>> \o list
    ELSE <<Head(list)>> \o InsertSorted(Tail(list), x)

\* line 196: sorted(items, key = ...), a stable sort
RECURSIVE sorted(_)
sorted(items) ==
    IF items = <<>> THEN <<>>
    ELSE InsertSorted(sorted(SubSeq(items, 1, Len(items) - 1)),
                      items[Len(items)])

\* points_table.items(): the entries in the order the teams were inserted
ItemsOf(table, order) == [x \in DOMAIN order |-> <<order[x], table[order[x]]>>]

\* lines 190-197 ({} for a missing or empty table)
get_points_table ==
    /\ response' =
          IF points_table = NoFile THEN
              [handler |-> "points_table", status |-> 200, body |-> <<>>]
          ELSE IF DOMAIN points_table[1] = {} THEN
              [handler |-> "points_table", status |-> 200, body |-> <<>>]
          ELSE
              [handler |-> "points_table", status |-> 200,
               body |-> [tournament_name |-> config[1].name,
                         table |-> sorted(ItemsOf(points_table[1],
                                                  config[1].teams))]]
    /\ UNCHANGED <<files, sched_vars, innings_vars, race_vars>>

Init == SchedIdle /\ InningsIdle /\ FilesInit /\ RaceIdle

Next ==
    \/ setup_tournament
    \/ simulate_next_match
    \/ reset_system
    \/ get_status
    \/ get_points_table

Spec == Init /\ [][Next]_vars

(***************************************************************************)
(* SpecRace: two simulate_next requests served at once.  A step is one     *)
(* load or save of a file together with the computation on local variables *)
(* that follows it; the steps of the two requests interleave freely.       *)
(***************************************************************************)
\* the state a setup leaves (lines 99-115), both requests about to start
InitRace ==
    /\ SchedIdle
    /\ InningsIdle
    /\ \E name \in Names, n \in 1..MaxTourOvers, teams \in TourTeamLists :
          /\ config = <<[name |-> name, overs |-> n, teams |-> teams]>>
          /\ schedule = <<generate_round_robin_schedule(teams)>>
          /\ points_table = <<[t \in Range(teams) |-> NewEntry]>>
          /\ results = << <<>> >>
    /\ response = [handler |-> "setup", status |-> 200]
    /\ RaceIdle

\* line 124: schedule = load_json(MATCH_SCHEDULE_FILE)
LoadSchedule(p) ==
    /\ req[p].pc = "start"
    /\ req' = [req EXCEPT ![p] = [@ EXCEPT !.pc = "loaded",
                                           !.schedule = schedule]]
    /\ UNCHANGED <<files, response, sched_vars, innings_vars>>

\* line 126 on the local schedule and the config read at line 125
NothingLoaded(p) ==
    IF req[p].schedule = NoFile THEN TRUE
    ELSE IF Len(req[p].schedule[1]) = 0 THEN TRUE
    ELSE config = NoFile

\* lines 125-127: the config is loaded and there is nothing to play
LoadConfigError(p) ==
    /\ req[p].pc = "loaded"
    /\ NothingLoaded(p)
    /\ req' = [req EXCEPT ![p] = [@ EXCEPT !.pc = "done", !.status = 400]]
    /\ response' = [handler |-> "simulate_next", status |-> 400]
    /\ UNCHANGED <<files, sched_vars, innings_vars>>

\* the locals of a request after lines 129-139: the match popped off the
\* local schedule, the two innings and the winner
PlayedBy(r, draws1, draws2) ==
    LET match == Head(r.schedule[1])
        scorecard1 == simulate_innings_bot(draws1)
        scorecard2 == simulate_innings_bot(draws2)
    IN  [r EXCEPT !.pc = "played",
                  !.schedule = <<Tail(r.schedule[1])>>,
                  !.match = match,
                  !.scorecard1 = scorecard1,
                  !.scorecard2 = scorecard2,
                  !.winner = WinnerOf(match[1], scorecard1,
                                      match[2], scorecard2)]

\* LoadConfigAndPlay saving the schedule as soon as the match is popped
PopAndSaveSchedule(p) ==
    /\ req[p].pc = "loaded"
    /\ ~NothingLoaded(p)
    /\ \E draws1, draws2 \in TourDraws(config[1].overs) :
          req' = [req EXCEPT ![p] = PlayedBy(@, draws1, draws2)]
    /\ schedule' = <<Tail(req[p].schedule[1])>>
    /\ UNCHANGED <<config, results, points_table, response,
                   sched_vars, innings_vars>>

\* lines 125-139: the config is loaded, the match is popped off the local
\* schedule and played
LoadConfigAndPlay(p) ==
    /\ req[p].pc = "loaded"
    /\ ~NothingLoaded(p)
    /\ \E draws1, draws2 \in TourDraws(config[1].overs) :
          req' = [req EXCEPT ![p] = PlayedBy(@, draws1, draws2)]
    /\ UNCHANGED <<files, response, sched_vars, innings_vars>>

\* lines 141-168: the points table is loaded and updated in the local copy
LoadPoints(p) ==
    /\ req[p].pc = "played"
    /\ LET r == req[p]
           team1 == r.match[1]
           team2 == r.match[2]
           credited == Credit(Credit(points_table[1],
                                     team1, r.scorecard1, r.scorecard2),
                              team2, r.scorecard2, r.scorecard1)
       IN  req' = [req EXCEPT ![p] =
                      [@ EXCEPT !.pc = "rated",
                                !.points_table =
                                    <<Rerate(Award(credited, team1, team2,
                                                   r.winner))>>]]
    /\ UNCHANGED <<files, response, sched_vars, innings_vars>>

\* line 170: save_json(POINTS_TABLE_FILE, points_table)
SavePoints(p) ==
    /\ req[p].pc = "rated"
    /\ points_table' = req[p].points_table
    /\ req' = [req EXCEPT ![p] = [@ EXCEPT !.pc = "points_saved"]]
    /\ UNCHANGED <<config, schedule, results, response,
                   sched_vars, innings_vars>>

\* lines 172-177: the result log is loaded and the result appended to the
\* local copy
LoadResults(p) ==
    /\ req[p].pc = "points_saved"
    /\ LET r == req[p]
       IN  req' = [req EXCEPT ![p] =
                      [@ EXCEPT !.pc = "appended",
                                !.results =
                                    <<Append(results[1],
                                             [team1 |-> r.match[1],
                                              scorecard1 |-> r.scorecard1,
                                              team2 |-> r.match[2],
                                              scorecard2 |-> r.scorecard2,
                                              winner |-> r.winner])>>]]
    /\ UNCHANGED <<files, response, sched_vars, innings_vars>>

\* line 178: save_json(MATCH_RESULTS_FILE, results)
SaveResults(p) ==
    /\ req[p].pc = "appended"
    /\ results' = req[p].results
    /\ req' = [req EXCEPT ![p] = [@ EXCEPT !.pc = "results_saved"]]
    /\ UNCHANGED <<config, schedule, points_table, response,
                   sched_vars, innings_vars>>

\* lines 179-188: save_json(MATCH_SCHEDULE_FILE, schedule) and the reply
SaveSchedule(p) ==
    /\ req[p].pc = "results_saved"
    /\ schedule' = req[p].schedule
    /\ req' = [req EXCEPT ![p] = [@ EXCEPT !.pc = "done", !.status = 200]]
    /\ response' = [handler |-> "simulate_next", status |-> 200]
    /\ UNCHANGED <<config, results, points_table, sched_vars, innings_vars>>

NextRace ==
    \E p \in Requests :
        \/ LoadSchedule(p)
        \/ LoadConfigError(p)
        \/ LoadConfigAndPlay(p)
        \/ LoadPoints(p)
        \/ SavePoints(p)
        \/ LoadResults(p)
        \/ SaveResults(p)
        \/ SaveSchedule(p)

SpecRace == InitRace /\ [][NextRace]_vars

(***************************************************************************)
(* Properties of the scheduler (SpecSchedule)                              *)
(***************************************************************************)
\* the matches of a schedule that pair a and b, in either order
MatchesOf(sched, a, b) == {m \in DOMAIN sched : Range(sched[m]) = {a, b}}

NoSelfMatch(sched) == \A m \in DOMAIN sched : sched[m][1] # sched[m][2]

EachPairOnce(sched, teams) ==
    \A a, b \in Range(teams) :
        a # b => Cardinality(MatchesOf(sched, a, b)) = 1

Pairs(n) == (n * (n - 1)) \div 2

\* C1: for every list of n >= 2 unique team identifiers the schedule has no
\* match of a team against itself, and every unordered pair of distinct
\* teams is in exactly one match.
C1_EveryPairExactlyOnce ==
    (sched_pc = "done" /\ Len(teams_arg) >= 2)
        => /\ NoSelfMatch(returned)
           /\ EachPairOnce(returned, teams_arg)

\* C1, where the code does meet it: the lists in which no team is named
\* like the placeholder.
C1_HoldsUnlessATeamIsNamedBYE ==
    (sched_pc = "done" /\ Len(teams_arg) >= 2 /\ BYE \notin Range(teams_arg))
        => /\ NoSelfMatch(returned)
           /\ EachPairOnce(returned, teams_arg)

\* C2: for every list of n >= 2 unique team identifiers, n even or odd, the
\* schedule has exactly n(n-1)/2 matches.
C2_ScheduleLength ==
    (sched_pc = "done" /\ Len(teams_arg) >= 2)
        => Len(returned) = Pairs(Len(teams_arg))

\* C2, where the code does meet it (3 teams: 3, 4 teams: 6, 5 teams: 10).
C2_HoldsUnlessATeamIsNamedBYE ==
    (sched_pc = "done" /\ Len(teams_arg) >= 2 /\ BYE \notin Range(teams_arg))
        => Len(returned) = Pairs(Len(teams_arg))

(***************************************************************************)
(* Properties of the innings loop (SpecInnings)                            *)
(***************************************************************************)
\* C4: when simulate_innings_bot returns, legal balls = overs * 6 or
\* wickets = 10.
C4_EndsOnlyWhenBowledOutOrAllOut ==
    innings_pc = "returned"
        => \/ scorecard.balls = overs * BallsPerOver
           \/ scorecard.wickets = AllOut

\* C5: in every state during and at the end of simulate_innings_bot(O),
\* legal balls are between 0 and 6 * O and wickets between 0 and 10.
C5_BallsAndWicketsBounded ==
    innings_pc \in {"loop", "returned"}
        => /\ scorecard.balls \in 0..(overs * BallsPerOver)
           /\ scorecard.wickets \in 0..AllOut

\* C5 witness: an innings has returned all out on the last ball of its overs.
C5_Witness ==
    /\ innings_pc = "returned"
    /\ scorecard.wickets = AllOut
    /\ scorecard.balls = overs * BallsPerOver

\* C6 as stated: a delivery whose outcome is counted in the extras (wide,
\* no-ball, bye, leg-bye) leaves the legal ball count unchanged.
C6_NoExtraConsumesABall ==
    [][(drawn' = drawn + 1 /\ outcome' \in ExtraOutcomes)
          => scorecard'.balls = scorecard.balls]_vars

\* C6 amended: a wide or a no-ball leaves the legal ball count unchanged; a
\* bye or a leg-bye, though counted in the extras, is a legal ball and
\* raises the count by one.
C6_OnlyWidesAndNoBallsAreFree ==
    [][drawn' = drawn + 1
          => /\ outcome' \in {"WD", "NB"}
                  => scorecard'.balls = scorecard.balls
             /\ outcome' \in {"B", "LB"}
                  => scorecard'.balls = scorecard.balls + 1]_vars

\* C6 witness: a bye and then a wide have been bowled: one legal ball.
C6_Witness ==
    /\ innings_pc = "loop"
    /\ drawn = 2
    /\ outcome = "WD"
    /\ scorecard.extras.byes = 1
    /\ scorecard.extras.wides = 1
    /\ scorecard.balls = 1

(***************************************************************************)
(* Properties of the handlers (Spec)                                       *)
(***************************************************************************)
Configured == config # NoFile

\* the (team1, team2) pairs of a result log, in order
RECURSIVE PlayedPairs(_)
PlayedPairs(log) ==
    IF log = <<>> THEN <<>>
    ELSE <<<<Head(log).team1, Head(log).team2>>>> \o PlayedPairs(Tail(log))

\* the matches of the tournament in the order simulate_next plays them:
\* those played, then those still scheduled
PlayOrder == PlayedPairs(results[1]) \o schedule[1]

ABC == <<"A", "B", "C">>

\* C3 as stated: setup with teams [A,B,C] gives 3 matches whose first is
\* (A,C) and whose second lists B first, played in that order.
C3_FirstMatchIsAC ==
    (Configured /\ config[1].teams = ABC)
        => /\ Len(PlayOrder) = 3
           /\ PlayOrder[1] = <<"A", "C">>
           /\ PlayOrder[2][1] = "B"

\* C3 amended: setup with teams [A,B,C] gives the 3 matches (B,C), (A,C),
\* (A,B) in this order, the order of generation (the first round's pairing
\* of A with the placeholder is dropped), and simulate_next plays them in
\* this order.
C3_CircleOrderOfABC ==
    (Configured /\ config[1].teams = ABC)
        => PlayOrder = << <<"B", "C">>, <<"A", "C">>, <<"A", "B">> >>

\* C3 witness: the three matches of [A,B,C] have all been played.
C3_Witness ==
    /\ Configured
    /\ config[1].teams = ABC
    /\ Len(results[1]) = 3
    /\ schedule[1] = <<>>

\* a step in which simulate_next played a match
Played == response'.handler = "simulate_next" /\ response'.status = 200

LastResult == results'[1][Len(results'[1])]

\* the winner w gets points +2 and won +1, the loser l lost +1, points +0
WinLoss(old, new, w, l) ==
    /\ new[w].points = old[w].points + 2
    /\ new[w].won = old[w].won + 1
    /\ new[l].lost = old[l].lost + 1
    /\ new[l].points = old[l].points

TieEach(old, new, a, b) ==
    /\ new[a].points = old[a].points + 1
    /\ new[b].points = old[b].points + 1
    /\ \A t \in {a, b} : new[t].won = old[t].won /\ new[t].lost = old[t].lost

OthersKeep(old, new, a, b) ==
    \A t \in DOMAIN old \ {a, b} :
        /\ new[t].points = old[t].points
        /\ new[t].won = old[t].won
        /\ new[t].lost = old[t].lost

PointsRule(old, new, r) ==
    /\ r.scorecard1.runs > r.scorecard2.runs
          => WinLoss(old, new, r.team1, r.team2)
    /\ r.scorecard2.runs > r.scorecard1.runs
          => WinLoss(old, new, r.team2, r.team1)
    /\ r.scorecard1.runs = r.scorecard2.runs
          => TieEach(old, new, r.team1, r.team2)
    /\ OthersKeep(old, new, r.team1, r.team2)

\* C7: in every simulate_next, the side with strictly more runs gets
\* points +2 and won +1 and the other lost +1 and points +0; equal runs give
\* both points +1 and change no won or lost; the other teams keep theirs.
C7_PointsRule ==
    [][Played => PointsRule(points_table[1], points_table'[1], LastResult)]_vars

\* C7, where the code does meet it: the matches whose winner, if any, is
\* not the empty string.
C7_HoldsUnlessTheWinnerIsEmpty ==
    [][(Played /\ LastResult.winner # <<"">>)
          => PointsRule(points_table[1], points_table'[1], LastResult)]_vars

RECURSIVE SumPlayed(_, _)
SumPlayed(table, ts) ==
    IF ts = {} THEN 0
    ELSE LET t == CHOOSE x \in ts : TRUE
         IN  table[t].played + SumPlayed(table, ts \ {t})

\* C8: whenever a tournament is configured, the sum of played over the
\* standings equals twice the number of results recorded.
C8_PlayedIsTwiceResults ==
    Configured
        => SumPlayed(points_table[1], DOMAIN points_table[1])
               = 2 * Len(results[1])

\* C8 witness: three results are recorded.
C8_Witness ==
    /\ Configured
    /\ Len(results[1]) = 3
    /\ SumPlayed(points_table[1], DOMAIN points_table[1]) = 6

\* C9: after setup with n >= 2 unique teams exactly n(n-1)/2 simulate_next
\* calls succeed: the matches played and the matches still scheduled are
\* n(n-1)/2 together.
C9_PairsManyMatches ==
    (Configured /\ Len(config[1].teams) >= 2)
        => Len(results[1]) + Len(schedule[1]) = Pairs(Len(config[1].teams))

\* C9, where the code does meet it: no team is named like the placeholder.
C9_HoldsUnlessATeamIsNamedBYE ==
    (Configured /\ Len(config[1].teams) >= 2
                /\ BYE \notin Range(config[1].teams))
        => Len(results[1]) + Len(schedule[1]) = Pairs(Len(config[1].teams))

\* C9, the steps: a simulate_next with a match left succeeds, shortens the
\* schedule by one and records one result; with none left (or no
\* tournament) it fails.
C9_EachCallPlaysOneOrFails ==
    [][response'.handler = "simulate_next"
          => IF NothingToPlay
             THEN response'.status = 400
             ELSE /\ response'.status = 200
                  /\ Len(schedule'[1]) = Len(schedule[1]) - 1
                  /\ Len(results'[1]) = Len(results[1]) + 1]_vars

\* C10: simulate_next with no tournament configured or with an empty
\* schedule replies with an error and leaves config, schedule, result log
\* and points table as they were.
C10_ErrorChangesNothing ==
    [][(response'.handler = "simulate_next" /\ NothingToPlay)
          => /\ response'.status = 400
             /\ UNCHANGED <<config, schedule, results, points_table>>]_vars

\* C10 witness: simulate_next has failed on the exhausted schedule of a
\* tournament whose three matches are played and recorded.
C10_Witness ==
    /\ response = [handler |-> "simulate_next", status |-> 400]
    /\ Configured
    /\ schedule = << <<>> >>
    /\ Len(results[1]) = 3

\* get_points_table has replied with a table of the current standings
TableReplied ==
    /\ response.handler = "points_table"
    /\ points_table # NoFile
    /\ DOMAIN points_table[1] # {}

\* the identifiers of the model in lexicographic order
Alphabet == <<"", "A", "B", "BYE", "C", "D", "E">>

IdBefore(a, b) ==
    \E x, y \in DOMAIN Alphabet : x < y /\ Alphabet[x] = a /\ Alphabet[y] = b

\* entry e of team a ranks before entry f of team b
RanksBefore(a, e, b, f) ==
    \/ e.points > f.points
    \/ e.points = f.points /\ NrrOf(e) > NrrOf(f)
    \/ e.points = f.points /\ NrrOf(e) = NrrOf(f) /\ IdBefore(a, b)

\* the orders in which a table of these teams can be stored
StoredOrders(teams) ==
    {[x \in DOMAIN teams |-> teams[p[x]]] : p \in Permutations(DOMAIN teams)}

\* C11: the table get_points_table returns lists every standings entry
\* exactly once, by points descending, then net run rate descending, then
\* identifier ascending (of two teams equal in points and net run rate the
\* lexicographically smaller comes first), whatever the stored order.
C11_RankedTable ==
    TableReplied =>
        LET tab == response.body.table
            pt == points_table[1]
        IN  /\ Len(tab) = Cardinality(DOMAIN pt)
            /\ {tab[x][1] : x \in DOMAIN tab} = DOMAIN pt
            /\ \A x \in DOMAIN tab : tab[x][2] = pt[tab[x][1]]
            /\ \A x, y \in DOMAIN tab :
                  x < y => RanksBefore(tab[x][1], tab[x][2],
                                       tab[y][1], tab[y][2])
            /\ \A order \in StoredOrders(config[1].teams) :
                  sorted(ItemsOf(pt, order)) = tab

\* where team t stands in the list the table was set up with
StoredAt(t) == CHOOSE x \in DOMAIN config[1].teams : config[1].teams[x] = t

\* C11 witness: after a match, the returned table lists two teams equal in
\* points and net run rate next to each other, the one stored later first.
C11_Witness ==
    /\ TableReplied
    /\ Len(results[1]) >= 1
    /\ \E x \in DOMAIN response.body.table :
          LET tab == response.body.table IN
          /\ x + 1 \in DOMAIN tab
          /\ tab[x][2].played = 1
          /\ tab[x][2].points = tab[x + 1][2].points
          /\ NrrOf(tab[x][2]) = NrrOf(tab[x + 1][2])
          /\ StoredAt(tab[x][1]) > StoredAt(tab[x + 1][1])

\* no file of a tournament exists
Unset ==
    /\ config = NoFile /\ schedule = NoFile
    /\ results = NoFile /\ points_table = NoFile

\* C12: from any state, one reached by a reset among them, reset replies
\* without error and leaves no config, schedule, result log or points
\* table; get_status then reports is_setup = false.
C12_ResetLeavesUnset ==
    [][/\ response'.handler = "reset"
            => /\ response'.status = 200
               /\ config' = NoFile /\ schedule' = NoFile
               /\ results' = NoFile /\ points_table' = NoFile
       /\ (response'.handler = "status" /\ Unset)
            => response'.body.is_setup = FALSE]_vars

\* C12 witness: get_status has replied not set up in the state a reset left
\* (the state of a fresh start is the same one).
C12_Witness ==
    /\ Unset
    /\ response.handler = "status"
    /\ response.body.is_setup = FALSE

\* the points of the teams that are in the table before and after a step do
\* not go down
PointsNotLowered ==
    \A t \in DOMAIN points_table[1] \cap DOMAIN points_table'[1] :
        points_table'[1][t].points >= points_table[1][t].points

\* C13: every team's points are 0 after a setup, and no setup or
\* simulate_next lowers the points a team had in the preceding state.
C13_NoOperationLowersPoints ==
    [][/\ response'.handler = "setup"
            => \A t \in DOMAIN points_table'[1] :
                   points_table'[1][t].points = 0
       /\ (/\ response'.handler \in {"setup", "simulate_next"}
           /\ points_table # NoFile)
            => PointsNotLowered]_vars

\* C13 as the code has it: every team's points are 0 after a setup, which
\* starts a new table whatever the teams had, and no simulate_next lowers
\* the points a team had in the preceding state.
C13_OnlySetupStartsOver ==
    [][/\ response'.handler = "setup"
            => \A t \in DOMAIN points_table'[1] :
                   points_table'[1][t].points = 0
       /\ (response'.handler = "simulate_next" /\ points_table # NoFile)
            => PointsNotLowered]_vars

\* C13 witness: a match has just been played and a team has the points of a
\* win and a tie.
C13_Witness ==
    /\ response.handler = "simulate_next" /\ response.status = 200
    /\ \E t \in DOMAIN points_table[1] :
           points_table[1][t].points = WinPoints + TiePoints

\* the run and ball totals one team can have after one match
MatchTotals == 0 .. (MaxTourOvers * BallsPerOver)

\* calculate_nrr without overs on one side, whatever the runs
ZeroWithoutOvers ==
    \A runs_for, runs_against, o \in MatchTotals :
        /\ calculate_nrr(runs_for, 0, runs_against, o) = 0
        /\ calculate_nrr(runs_for, o, runs_against, 0) = 0

\* C14: calculate_nrr is 0 whenever overs_for = 0 or overs_against = 0,
\* whatever the runs; once a match has been simulated every team whose
\* overs_for or overs_against is 0, those that have not played among them,
\* has a stored nrr of 0 (the ratings are computed without a division by 0).
C14_NrrZeroWithoutOvers ==
    /\ ZeroWithoutOvers
    /\ (Configured /\ Len(results[1]) > 0)
         => \A t \in DOMAIN points_table[1] :
                LET e == points_table[1][t]
                IN  (e.overs_for = 0 \/ e.overs_against = 0)
                        => "nrr" \in DOMAIN e /\ e.nrr = 0

\* C14 witness: a team has batted and scored without facing a legal ball,
\* against a side that did face some, and is rated 0; another team has not
\* played and is rated 0.
C14_Witness ==
    /\ Configured
    /\ \E t, u \in DOMAIN points_table[1] :
           LET e == points_table[1][t]
               f == points_table[1][u]
           IN  /\ e.played > 0 /\ e.runs_for > 0 /\ e.overs_for = 0
               /\ e.overs_against > 0 /\ e.nrr = 0
               /\ f.played = 0 /\ "nrr" \in DOMAIN f /\ f.nrr = 0

\* a successful simulate_next takes the front match off the schedule and
\* puts it, and nothing else, at the end of the result log
FrontMatchRecordedLast ==
    /\ schedule'[1] = Tail(schedule[1])
    /\ Len(results'[1]) = Len(results[1]) + 1
    /\ SubSeq(results'[1], 1, Len(results[1])) = results[1]
    /\ <<LastResult.team1, LastResult.team2>> = Head(schedule[1])

\* C15: between a setup and the next setup or reset, the pairs of the
\* result log in order followed by the remaining schedule are the schedule
\* generated at that setup; each successful simulate_next removes the front
\* match and records that match as the last result.
C15_LogThenScheduleIsTheGeneratedSchedule ==
    /\ [](Configured
            => PlayOrder = generate_round_robin_schedule(config[1].teams))
    /\ [][Played => FrontMatchRecordedLast]_vars

\* C15 witness: a tournament of three matches with one played and two left.
C15_Witness ==
    /\ Configured
    /\ Len(results[1]) = 1 /\ Len(schedule[1]) = 2
    /\ response.handler = "simulate_next" /\ response.status = 200

\* the sum of one field over the entries of the teams ts
RECURSIVE SumOf(_, _, _)
SumOf(field, table, ts) ==
    IF ts = {} THEN 0
    ELSE LET t == CHOOSE x \in ts : TRUE
         IN  table[t][field] + SumOf(field, table, ts \ {t})

StandingsSum(field) == SumOf(field, points_table[1], DOMAIN points_table[1])

\* C17: whenever a tournament is configured, the points of all teams add up
\* to 2 times the number of recorded results, and the wins add up to the
\* losses.
C17_TwoPointsAMatch ==
    Configured
        => /\ StandingsSum("points") = 2 * Len(results[1])
           /\ StandingsSum("won") = StandingsSum("lost")

\* C17 witness: of the recorded results one was won and one was tied.
C17_Witness ==
    /\ Configured
    /\ \E x, y \in DOMAIN results[1] :
           /\ Truthy(results[1][x].winner)
           /\ results[1][y].winner = NoWinner
    /\ StandingsSum("won") > 0

\* the runs the buckets of the breakdown and the extras add up to
RunsCounted(sc) ==
    1 * sc.breakdown["1"] + 2 * sc.breakdown["2"] + 3 * sc.breakdown["3"]
        + 4 * sc.breakdown["4"] + 6 * sc.breakdown["6"]
        + sc.extras.wides + sc.extras.noballs
        + sc.extras.byes + sc.extras.legbyes

\* the legal balls the buckets of the breakdown and the extras add up to
BallsCounted(sc) ==
    sc.breakdown["0"] + sc.breakdown["1"] + sc.breakdown["2"]
        + sc.breakdown["3"] + sc.breakdown["4"] + sc.breakdown["6"]
        + sc.breakdown["wickets"] + sc.extras.byes + sc.extras.legbyes

\* C18: every scorecard of an innings, the returned one included, is
\* consistent: its runs are the runs of the breakdown buckets plus one for
\* each extra, its balls are the breakdown buckets, wickets included, plus
\* the byes and leg-byes, and its wickets are the wickets of the breakdown.
C18_ScorecardAddsUp ==
    innings_pc \in {"loop", "returned"}
        => /\ scorecard.runs = RunsCounted(scorecard)
           /\ scorecard.balls = BallsCounted(scorecard)
           /\ scorecard.wickets = scorecard.breakdown["wickets"]

\* C18 witness: a returned scorecard with a wide, a bye, a four and a
\* wicket in it.
C18_Witness ==
    /\ innings_pc = "returned"
    /\ scorecard.extras.wides > 0 /\ scorecard.extras.byes > 0
    /\ scorecard.breakdown["4"] > 0 /\ scorecard.wickets > 0

\* C19: the outcomes drawn in an innings are its legal balls, wides and
\* no-balls, and they never exceed overs*6: a wide or a no-ball uses up one
\* of the overs*6 draws.
C19_DrawsBounded ==
    innings_pc \in {"loop", "returned"}
        => /\ scorecard.balls + scorecard.extras.wides
                 + scorecard.extras.noballs = drawn
           /\ drawn <= overs * BallsPerOver

\* C19 witness: an innings that was not bowled out has returned with a wide
\* or a no-ball and as many legal balls short of overs*6.
C19_Witness ==
    /\ innings_pc = "returned"
    /\ scorecard.wickets < AllOut
    /\ scorecard.extras.wides + scorecard.extras.noballs > 0
    /\ scorecard.balls = overs * BallsPerOver - scorecard.extras.wides
                             - scorecard.extras.noballs

\* the matches of round r (from 0) of a schedule of rounds of h matches
RoundOf(sched, r, h) == SubSeq(sched, r * h + 1, (r + 1) * h)

\* a schedule for the teams is n-1 rounds of n/2 matches, every team is in
\* exactly one match of each round, and the first team is listed first in
\* the first match of each round
FixedFirstTeamRounds(sched, teams) ==
    LET n == Len(teams)
        h == n \div 2
    IN  /\ Len(sched) = (n - 1) * h
        /\ \A r \in 0..(n - 2) :
               LET round == RoundOf(sched, r, h)
               IN  /\ \A t \in Range(teams) :
                          Cardinality({m \in DOMAIN round :
                                          t \in Range(round[m])}) = 1
                   /\ round[1][1] = teams[1]

\* C20: for an even number n >= 2 of unique team identifiers the schedule
\* is n-1 consecutive rounds of n/2 matches, every team is in exactly one
\* match of each round, and the first input team is listed first in the
\* first match of every round.
C20_RoundsWithFirstTeamFixed ==
    (sched_pc = "done" /\ Len(teams_arg) >= 2 /\ Len(teams_arg) % 2 = 0)
        => FixedFirstTeamRounds(returned, teams_arg)

\* C20, where the code does meet it: the lists in which no team is named
\* like the placeholder.
C20_HoldsUnlessATeamIsNamedBYE ==
    (/\ sched_pc = "done" /\ Len(teams_arg) >= 2 /\ Len(teams_arg) % 2 = 0
     /\ BYE \notin Range(teams_arg))
        => FixedFirstTeamRounds(returned, teams_arg)

(***************************************************************************)
(* Properties of two concurrent simulate_next requests (SpecRace)          *)
(***************************************************************************)
\* both requests have replied that a match was simulated
BothSimulated == \A p \in Requests : req[p].pc = "done" /\ req[p].status = 200

\* the two requests loaded the schedule before either saved it: each popped
\* the same front match and holds the same rest
SameMatchPopped == req["first"].schedule = req["second"].schedule

\* the result log records one match twice in a row
RecordedTwice ==
    /\ Len(results[1]) = 2
    /\ results[1][1].team1 = results[1][2].team1
    /\ results[1][1].team2 = results[1][2].team2

\* the log holds the result of one of the two simulated matches only
ResultLost == Len(results[1]) = 1

\* the points table counts one of the two simulated matches only
PointsLost == SumPlayed(points_table[1], DOMAIN points_table[1]) = 2

\* C16: two concurrent simulate_next requests whose loads and saves
\* interleave can leave a state in which one scheduled match is recorded
\* twice or an update of the log or of the points table is lost: whenever
\* both requests loaded the schedule before either saved it, both simulate
\* its front match, one match only leaves the schedule, and the log has it
\* twice or has lost one of the two results; requests that did not overlap
\* so leave the state two requests in turn leave.
C16_RaceRecordsTwiceOrLosesAnUpdate ==
    BothSimulated
        => IF SameMatchPopped
           THEN /\ req["first"].match = req["second"].match
                /\ <<req["first"].match>> \o schedule[1]
                       = generate_round_robin_schedule(config[1].teams)
                /\ RecordedTwice \/ ResultLost
           ELSE /\ PlayOrder = generate_round_robin_schedule(config[1].teams)
                /\ Len(results[1]) = 2
                /\ SumPlayed(points_table[1], DOMAIN points_table[1]) = 4

\* C16 witness: both requests have replied, the log records one match
\* twice, and the points table counts it once: one update of it is lost.
C16_Witness ==
    /\ BothSimulated
    /\ RecordedTwice
    /\ PointsLost

\* C16, the other outcome: both requests have replied and the log holds
\* one result.
C16_ResultLostReached ==
    /\ BothSimulated
    /\ ResultLost

=============================================================================
